---- MODULE Spec2Model ----
(***************************************************************************)
(* A model of quora_scraper.py: the scroll loop of search_keyword, the     *)
(* slot-indexed extraction of extract_posts / extract_posts_for_count and  *)
(* the truncation of scrape_posts.  The page is the environment: a small   *)
(* set of rendered page states the driver can report.                      *)
(***************************************************************************)
EXTENDS Integers, Sequences, FiniteSets, TLC

(***************************************************************************)
(* Python values.  An optional value (None, or a missing element) is a     *)
(* sequence of length 0; a value that is there is a sequence of length 1.  *)
(***************************************************************************)
None == <<>>
Some(v) == <<v>>
IsSome(o) == o # <<>>
Get(o) == o[1]

\* Truth value of a str-or-None, as `if href` / `if not follow_text` test it.
Truthy(o) == IsSome(o) /\ Get(o) # ""

Whitespace == {" ", "\t", "\n", "\r", "\f"}

RECURSIVE LStrip(_)
LStrip(s) ==
  IF Len(s) > 0 /\ SubSeq(s, 1, 1) \in Whitespace
  THEN LStrip(SubSeq(s, 2, Len(s)))
  ELSE s

RECURSIVE RStrip(_)
RStrip(s) ==
  IF Len(s) > 0 /\ SubSeq(s, Len(s), Len(s)) \in Whitespace
  THEN RStrip(SubSeq(s, 1, Len(s) - 1))
  ELSE s

\* str.strip()
Strip(s) == RStrip(LStrip(s))

\* str.startswith(prefix)
StartsWith(s, prefix) ==
  Len(s) >= Len(prefix) /\ SubSeq(s, 1, Len(prefix)) = prefix

\* `sub in s`
Contains(s, sub) ==
  \E i \in 1..(Len(s) - Len(sub) + 1) : SubSeq(s, i, i + Len(sub) - 1) = sub

UpperCase == "ABCDEFGHIJKLMNOPQRSTUVWXYZ"
LowerCase == "abcdefghijklmnopqrstuvwxyz"

LowerChar(c) ==
  IF \E k \in 1..Len(UpperCase) : SubSeq(UpperCase, k, k) = c
  THEN LET k == CHOOSE k \in 1..Len(UpperCase) : SubSeq(UpperCase, k, k) = c
       IN SubSeq(LowerCase, k, k)
  ELSE c

RECURSIVE Lower(_)
\* str.lower(), character by character (the string is halved to keep the
\* evaluation shallow)
Lower(s) ==
  IF Len(s) = 0 THEN ""
  ELSE IF Len(s) = 1 THEN LowerChar(s)
  ELSE CHOOSE r \in { Lower(left) \o Lower(right) :
                       left \in {SubSeq(s, 1, Len(s) \div 2)},
                       right \in {SubSeq(s, Len(s) \div 2 + 1, Len(s))} } : TRUE

(***************************************************************************)
(* Program constants.                                                      *)
(***************************************************************************)
MaxScrolls == 50
StagnationLimit == 5
MinTitleLen == 10
SlotStart == 1
SlotStop == 100
CountSlotStop == 100
Origin == "https://www.quora.com"

\* `title and len(title) > 10`
Significant(title) == title # "" /\ Len(title) > MinTitleLen

\* The url of a record, from the href attribute (str or None).
FullUrl(href) ==
  IF Truthy(href) /\ StartsWith(Get(href), "/") THEN Origin \o Get(href)
  ELSE IF Truthy(href) THEN Get(href)
  ELSE ""

(***************************************************************************)
(* The page as the driver reports it.  A slot is the element at            *)
(* div:nth-child(i) of the result list; a link is an <a> element.          *)
(*   a, b        the patternA / patternB link of the slot (element|None)   *)
(*   more        the expand control is present                             *)
(*   expanded    the expand control has been clicked                       *)
(*   views ..    text of the metric elements (None: element absent)        *)
(*   probeFails  query_selector raises at this slot                        *)
(*   clickFails  more_button.click() raises                                *)
(*   stale       get_attribute / inner_text of the link raises             *)
(*   divs        class attributes of the link's ancestor divs              *)
(***************************************************************************)
Link(href, text, divs) ==
  [href |-> href, text |-> text, divs |-> divs, stale |-> FALSE]

EmptySlot ==
  [a |-> None, b |-> None, more |-> FALSE, expanded |-> FALSE,
   views |-> None, likes |-> None,
   follow1 |-> None, fcount1 |-> None, follow2 |-> None, fcount2 |-> None,
   probeFails |-> FALSE, clickFails |-> FALSE]

\* page.query_selector of the slot-indexed selectors: absent slots hold nothing.
SlotAt(page, i) ==
  IF i \in DOMAIN page.slots THEN page.slots[i] ELSE EmptySlot

SetMin(S) == CHOOSE x \in S : \A y \in S : x <= y

\* The <a> elements of one slot, in document order.
SlotLinks(page, i) ==
  LET s == page.slots[i]
  IN (IF IsSome(s.a) THEN <<[el |-> Get(s.a), id |-> <<"slot", i, "A">>]>> ELSE <<>>)
     \o (IF IsSome(s.b) THEN <<[el |-> Get(s.b), id |-> <<"slot", i, "B">>]>> ELSE <<>>)

RECURSIVE ExtraLinks(_, _)
ExtraLinks(page, j) ==
  IF j > Len(page.extra) THEN <<>>
  ELSE <<[el |-> page.extra[j], id |-> <<"extra", j, "G">>]>> \o ExtraLinks(page, j + 1)

RECURSIVE DocFrom(_, _)
DocFrom(page, todo) ==
  IF todo = {} THEN ExtraLinks(page, 1)
  ELSE LET i == SetMin(todo)
       IN SlotLinks(page, i) \o DocFrom(page, todo \ {i})

\* Every <a> element of the document, in document order.
DocAnchors(page) == DocFrom(page, DOMAIN page.slots)

\* page.content(): the text the "no results" test reads.
RECURSIVE JoinText(_, _)
JoinText(doc, j) ==
  IF j > Len(doc) THEN "" ELSE doc[j].el.text \o JoinText(doc, j + 1)

PageContent(page) == page.banner \o JoinText(DocAnchors(page), 1)

\* the test without .lower()
SignalsNoResultsCaseSensitive(content) ==
  Contains(content, "no results") \/ Contains(content, "no answers")

\* `"no results" in page_content.lower() or "no answers" in page_content.lower()`
SignalsNoResults(content) ==
  \E low \in {Lower(content)} :
    Contains(low, "no results") \/ Contains(low, "no answers")

(***************************************************************************)
(* extract_posts.  The accumulator carries the list being built (posts)    *)
(* and, beside it, what the pass did to the page: origin[n] tells where    *)
(* posts[n] was found, clicks the slots whose expand control was clicked,  *)
(* probed the last slot queried, fbQueries / fbReads the generic patterns  *)
(* queried and the links read by the fallback pass.                        *)
(***************************************************************************)
Acc0 ==
  [posts |-> <<>>, origin |-> <<>>, clicks |-> <<>>, probed |-> 0,
   raised |-> FALSE, stopped |-> FALSE, primaryCount |-> 0,
   ranFallback |-> FALSE, fbQueries |-> <<>>, fbReads |-> <<>>]

\* The `if link2:` block: the expand click and the views / likes reads.
MoreBlock(s) ==
  IF ~IsSome(s.b) \/ ~s.more
  THEN [views |-> "", likes |-> "", clicked |-> FALSE]
  ELSE IF s.clickFails
  THEN [views |-> "0", likes |-> "0", clicked |-> TRUE]
  ELSE [views |-> IF IsSome(s.views) THEN Strip(Get(s.views)) ELSE "0",
        likes |-> IF IsSome(s.likes) THEN Strip(Get(s.likes)) ELSE "0",
        clicked |-> TRUE]

\* The `if link1:` block: the follow label and count, primary then alternate
\* location, "0" when both are empty.
FollowBlock(s) ==
  LET t1 == IF IsSome(s.follow1) THEN Strip(Get(s.follow1)) ELSE ""
      c1 == IF IsSome(s.fcount1) THEN Strip(Get(s.fcount1)) ELSE ""
      t2 == IF t1 = "" /\ IsSome(s.follow2) THEN Strip(Get(s.follow2)) ELSE t1
      c2 == IF c1 = "" /\ IsSome(s.fcount2) THEN Strip(Get(s.fcount2)) ELSE c1
  IN [follow_text |-> IF t2 = "" THEN "0" ELSE t2,
      follow_count |-> IF c2 = "" THEN "0" ELSE c2]

\* `link = link1 if link1 else link2`
SelectLink(s) == IF IsSome(s.a) THEN s.a ELSE s.b

\* the break taken one record too late
TargetFilledLate(n, target) == n > target

\* `if len(posts) >= target_posts: break`
TargetFilled(n, target) == n >= target

\* One iteration of `for i in range(1, 100)` of extract_posts.
PrimarySlot(s, i, target, acc) ==
  IF s.probeFails
  THEN [acc EXCEPT !.probed = i, !.raised = TRUE]
  ELSE
    LET mb   == MoreBlock(s)
        link == SelectLink(s)
        acc1 == [acc EXCEPT !.probed = i,
                            !.clicks = IF mb.clicked THEN Append(@, i) ELSE @]
    IN IF ~IsSome(link) \/ Get(link).stale THEN acc1
       ELSE
         LET title == Strip(Get(link).text)
         IN IF ~Significant(title) THEN acc1
            ELSE
              LET fl  == IF IsSome(s.a) THEN FollowBlock(s)
                         ELSE [follow_text |-> "", follow_count |-> ""]
                  rec == [title |-> title, url |-> FullUrl(Get(link).href),
                          follow_text |-> fl.follow_text,
                          follow_count |-> fl.follow_count,
                          views |-> mb.views, likes |-> mb.likes,
                          content |-> ""]
                  src == [pass |-> "primary", slot |-> i,
                          via |-> IF IsSome(s.a) THEN "A" ELSE "B"]
              IN [acc1 EXCEPT !.posts = Append(@, rec),
                              !.origin = Append(@, src),
                              !.stopped = TargetFilled(Len(acc1.posts) + 1, target)]

RECURSIVE PrimaryRangeNoBreak(_, _, _, _, _)
\* the loop without its break: it goes on after the target is reached
PrimaryRangeNoBreak(page, target, lo, hi, acc) ==
  IF lo >= hi \/ acc.raised THEN acc
  ELSE IF hi = lo + 1 THEN PrimarySlot(SlotAt(page, lo), lo, target, acc)
  ELSE CHOOSE r \in
         { PrimaryRangeNoBreak(page, target, h[1], hi, h[2]) :
             h \in { <<mid, PrimaryRangeNoBreak(page, target, lo, mid, acc)>> :
                       mid \in {(lo + hi) \div 2} } } : TRUE

RECURSIVE PrimaryRange(_, _, _, _, _)
\* `for i in range(lo, hi)` with its break; an exception ends it as well.
\* The range is halved to keep the evaluation shallow: the slots are still
\* visited one by one, in increasing order.  (CHOOSE r \in {F(x) : x \in {e}}
\* is F(e) with e evaluated once; it is used wherever a loop hands its
\* state to the next iteration.)
PrimaryRange(page, target, lo, hi, acc) ==
  IF lo >= hi \/ acc.raised \/ acc.stopped THEN acc
  ELSE IF hi = lo + 1 THEN PrimarySlot(SlotAt(page, lo), lo, target, acc)
  ELSE CHOOSE r \in
         { PrimaryRange(page, target, h[1], hi, h[2]) :
             h \in { <<mid, PrimaryRange(page, target, lo, mid, acc)>> :
                       mid \in {(lo + hi) \div 2} } } : TRUE

\* The generic patterns of the fallback pass, in their listed order.
FallbackSelectors ==
  << [kind |-> "href", word |-> "/answer/"],
     [kind |-> "href", word |-> "/question/"],
     [kind |-> "href", word |-> "/topic/"],
     [kind |-> "div", word |-> "answer"],
     [kind |-> "div", word |-> "question"],
     [kind |-> "div", word |-> "feed"],
     [kind |-> "div", word |-> "result"],
     [kind |-> "div", word |-> "item"],
     [kind |-> "div", word |-> "content"],
     [kind |-> "div", word |-> "post"],
     [kind |-> "div", word |-> "search"],
     [kind |-> "div", word |-> "list"],
     [kind |-> "div", word |-> "card"],
     [kind |-> "div", word |-> "tile"] >>

\* a[href*='w'] matches on the href attribute, div[class*='w'] a on the class
\* attribute of an ancestor div.
Matches(sel, el) ==
  IF sel.kind = "href"
  THEN IsSome(el.href) /\ Contains(Get(el.href), sel.word)
  ELSE \E c \in el.divs : Contains(c, sel.word)

\* page.query_selector_all(fallback_selectors[k])
QuerySelectorAll(page, k) ==
  LET Hit(e) == Matches(FallbackSelectors[k], e.el)
  IN SelectSeq(DocAnchors(page), Hit)

\* the fallback record put at the head of the list instead of its end
FallbackLinkPrepending(e, j, k, acc) ==
  IF e.el.stale \/ ~Significant(Strip(e.el.text))
  THEN [acc EXCEPT !.fbReads = Append(@, <<k, j>>)]
  ELSE [acc EXCEPT
          !.fbReads = Append(@, <<k, j>>),
          !.posts = <<[title |-> Strip(e.el.text),
                       url |-> FullUrl(e.el.href),
                       content |-> ""]>> \o @,
          !.origin = <<[pass |-> "fallback", sel |-> k,
                        idx |-> j, id |-> e.id]>> \o @]

\* One iteration of `for link in links`: the j-th match e of pattern k.
FallbackLink(e, j, k, acc) ==
  IF e.el.stale \/ ~Significant(Strip(e.el.text))
  THEN [acc EXCEPT !.fbReads = Append(@, <<k, j>>)]
  ELSE [acc EXCEPT
          !.fbReads = Append(@, <<k, j>>),
          !.posts = Append(@, [title |-> Strip(e.el.text),
                               url |-> FullUrl(e.el.href),
                               content |-> ""]),
          !.origin = Append(@, [pass |-> "fallback", sel |-> k,
                                idx |-> j, id |-> e.id])]

RECURSIVE FallbackLinksNoStop(_, _, _, _, _)
\* the inner loop without its `if len(posts) >= target_posts: break`
FallbackLinksNoStop(links, j, k, target, acc) ==
  IF j > Len(links) THEN acc
  ELSE CHOOSE r \in
         { FallbackLinksNoStop(links, j + 1, k, target, a) :
             a \in {FallbackLink(links[j], j, k, acc)} } : TRUE

RECURSIVE FallbackLinks(_, _, _, _, _)
\* `for link in links` of the fallback pass.
FallbackLinks(links, j, k, target, acc) ==
  IF j > Len(links) \/ TargetFilled(Len(acc.posts), target) THEN acc
  ELSE CHOOSE r \in
         { FallbackLinks(links, j + 1, k, target, a) :
             a \in {FallbackLink(links[j], j, k, acc)} } : TRUE

\* a query that raises taken for the end of the extraction: the records
\* collected so far are lost
FallbackSelectorLosing(page, target, k, acc) ==
  IF k \in page.qfail
  THEN [acc EXCEPT !.fbQueries = Append(@, k), !.posts = <<>>, !.origin = <<>>]
  ELSE CHOOSE r \in
         { FallbackLinks(links, 1, k, target, [acc EXCEPT !.fbQueries = Append(@, k)]) :
             links \in {QuerySelectorAll(page, k)} } : TRUE

\* One iteration of `for selector in fallback_selectors`: the query of
\* pattern k (an exception skips the pattern) and the loop over its matches.
FallbackSelector(page, target, k, acc) ==
  IF k \in page.qfail
  THEN [acc EXCEPT !.fbQueries = Append(@, k)]
  ELSE CHOOSE r \in
         { FallbackLinks(links, 1, k, target, [acc EXCEPT !.fbQueries = Append(@, k)]) :
             links \in {QuerySelectorAll(page, k)} } : TRUE

RECURSIVE FallbackFrom(_, _, _, _)
\* `for selector in fallback_selectors`
FallbackFrom(page, target, k, acc) ==
  IF k > Len(FallbackSelectors) \/ TargetFilled(Len(acc.posts), target) THEN acc
  ELSE CHOOSE r \in
         { FallbackFrom(page, target, k + 1, a) :
             a \in {FallbackSelector(page, target, k, acc)} } : TRUE

\* `if len(posts) < target_posts:` the fallback pass is needed
NeedsFallback(n, target) == n < target

\* extract_posts() with self.target_posts = target
\* What follows the primary pass p: the outer except clause returns [], the
\* fallback pass runs if the primary pass fell short.
AfterPrimary(page, target, p) ==
  IF p.raised
  THEN [p EXCEPT !.primaryCount = Len(p.posts), !.posts = <<>>, !.origin = <<>>]
  ELSE IF NeedsFallback(Len(p.posts), target)
  THEN FallbackFrom(page, target, 1,
         [p EXCEPT !.primaryCount = Len(p.posts), !.ranFallback = TRUE])
  ELSE [p EXCEPT !.primaryCount = Len(p.posts)]

ExtractPosts(page, target) ==
  CHOOSE r \in
    { AfterPrimary(page, target, p) :
        p \in {PrimaryRange(page, target, SlotStart, SlotStop, Acc0)} } : TRUE

(***************************************************************************)
(* extract_posts_for_count                                                 *)
(***************************************************************************)
\* the counting pass with the expand click of extract_posts left in
CountSlotClicking(s, i, acc) ==
  IF s.probeFails
  THEN [acc EXCEPT !.probed = i, !.raised = TRUE]
  ELSE
    LET link == SelectLink(s)
        acc1 == [acc EXCEPT !.probed = i,
                            !.clicks = IF MoreBlock(s).clicked THEN Append(@, i) ELSE @]
    IN IF ~IsSome(link) \/ Get(link).stale THEN acc1
       ELSE
         LET title == Strip(Get(link).text)
         IN IF ~Significant(title) THEN acc1
            ELSE [acc1 EXCEPT
                    !.posts = Append(@, [title |-> title, url |-> "", content |-> ""]),
                    !.origin = Append(@, [pass |-> "count", slot |-> i,
                                          via |-> IF IsSome(s.a) THEN "A" ELSE "B"])]

\* One iteration of `for i in range(1, 100)` of extract_posts_for_count.
CountSlot(s, i, acc) ==
  IF s.probeFails
  THEN [acc EXCEPT !.probed = i, !.raised = TRUE]
  ELSE
    LET link == SelectLink(s)
        acc1 == [acc EXCEPT !.probed = i]
    IN IF ~IsSome(link) \/ Get(link).stale THEN acc1
       ELSE
         LET title == Strip(Get(link).text)
         IN IF ~Significant(title) THEN acc1
            ELSE [acc1 EXCEPT
                    !.posts = Append(@, [title |-> title, url |-> "", content |-> ""]),
                    !.origin = Append(@, [pass |-> "count", slot |-> i,
                                          via |-> IF IsSome(s.a) THEN "A" ELSE "B"])]

RECURSIVE CountRange(_, _, _, _)
\* `for i in range(lo, hi)`; an exception ends it
CountRange(page, lo, hi, acc) ==
  IF lo >= hi \/ acc.raised THEN acc
  ELSE IF hi = lo + 1 THEN CountSlot(SlotAt(page, lo), lo, acc)
  ELSE CHOOSE r \in
         { CountRange(page, h[1], hi, h[2]) :
             h \in { <<mid, CountRange(page, lo, mid, acc)>> :
                       mid \in {(lo + hi) \div 2} } } : TRUE

\* the outer except clause returns []
AfterCount(c) ==
  IF c.raised THEN [c EXCEPT !.posts = <<>>, !.origin = <<>>] ELSE c

ExtractPostsForCount(page) ==
  CHOOSE r \in
    { AfterCount(c) : c \in {CountRange(page, SlotStart, CountSlotStop, Acc0)} } : TRUE

\* What a click on the expand control of the slots in `clicks` leaves behind.
ApplyClicks(page, clicks) ==
  [page EXCEPT !.slots =
     [i \in DOMAIN page.slots |->
        IF (\E n \in 1..Len(clicks) : clicks[n] = i) /\ ~page.slots[i].clickFails
        THEN [page.slots[i] EXCEPT !.expanded = TRUE]
        ELSE page.slots[i]]]

(***************************************************************************)
(* The page states the driver is drawn from.                               *)
(***************************************************************************)
MaxTarget == 3
MaxCalls == 2

\* a question card: patternA link, follow button at the primary location
KQuestion ==
  [EmptySlot EXCEPT
     !.a = Some(Link(Some("/question/Example"), "  How to lower Amazon ACoS\n", {})),
     !.follow1 = Some(" Follow "), !.fcount1 = Some("12")]

\* an answer card: patternB link, expand control, views and likes
KAnswer ==
  [EmptySlot EXCEPT
     !.b = Some(Link(Some("https://www.quora.com/What-is-ACoS/answer/Ann"),
                     "Amazon ACoS", {"q-box answer_content"})),
     !.more = TRUE, !.views = Some("1.2K views"), !.likes = Some("35")]

\* a slot where both link shapes match
KBoth ==
  [EmptySlot EXCEPT
     !.a = Some(Link(Some("/question/Both"), "Question link text", {})),
     !.b = Some(Link(Some("/unanswered/Span"), "Span link text here", {})),
     !.more = TRUE, !.views = Some("9K views"), !.likes = Some("7"),
     !.follow2 = Some("Follow"), !.fcount2 = Some("3")]

\* patternB link without an expand control
KAnswerNoMore ==
  [EmptySlot EXCEPT
     !.b = Some(Link(Some("question/Relative"), "Relative link title", {}))]

\* a title of exactly 10 characters
KShort ==
  [EmptySlot EXCEPT !.a = Some(Link(Some("/question/Short"), "Amazon PPC", {}))]

\* 10 characters once stripped
KPadded ==
  [EmptySlot EXCEPT !.a = Some(Link(Some("/question/Padded"), "\t Amazon PPC  ", {}))]

\* a link without href attribute
KNoHref ==
  [EmptySlot EXCEPT !.a = Some(Link(None, "Link without href", {}))]

\* a link whose href is a fragment
KFragment ==
  [EmptySlot EXCEPT !.b = Some(Link(Some("#"), "Fragment link title", {})),
                    !.more = TRUE]

\* an element that went away between the query and the read
KStale ==
  [EmptySlot EXCEPT
     !.a = Some([Link(Some("/question/Stale"), "Stale element title", {})
                   EXCEPT !.stale = TRUE])]

KProbeFail == [KQuestion EXCEPT !.probeFails = TRUE]

KClickFail == [KAnswer EXCEPT !.clickFails = TRUE]

HeadKinds ==
  {EmptySlot, KQuestion, KAnswer, KBoth, KAnswerNoMore, KShort, KPadded,
   KNoHref, KFragment, KStale, KProbeFail, KClickFail}

\* the kinds the second slot is drawn from
SecondKinds == {EmptySlot, KQuestion, KAnswer, KBoth, KShort, KStale}

TailKinds == {EmptySlot, KQuestion}

\* links outside the slot list
XTopic == <<Link(Some("/topic/Amazon-Advertising"), "Amazon Advertising", {})>>

XFeed ==
  <<Link(Some("/profile/Ann"), "Ann Example", {"feed_item"}),
    Link(Some("/profile/Bob"), " Feed card about ACoS ", {"q-box feed_item"}),
    [Link(Some("/profile/Cy"), "A detached feed card", {"feed_item"})
       EXCEPT !.stale = TRUE],
    Link(None, "Another search result", {"result_list"})>>

ExtraChoices == {<<>>, XTopic, XFeed}

QFailChoices == {{}, {2}}

Banners == {"", "No results found for your search", "We found NO ANSWERS"}

MkPage(slots, extra, qfail, banner) ==
  [slots |-> slots, extra |-> extra, qfail |-> qfail, banner |-> banner]

\* pages of the extraction specification: slots 1, 2 and the last two of range
RichPages ==
  { MkPage([i \in {1, 2, 99, 100} |->
              IF i = 1 THEN k1 ELSE IF i = 2 THEN k2
              ELSE IF i = 99 THEN k99 ELSE k100], x, f, "") :
      k1 \in HeadKinds, k2 \in SecondKinds, k99 \in TailKinds, k100 \in TailKinds,
      x \in ExtraChoices, f \in QFailChoices }

\* pages of the search specification
LoopPages ==
  { MkPage([i \in {1, 2, 3} |-> IF i = 1 THEN k1 ELSE IF i = 2 THEN k2 ELSE k3],
           x, {}, "") :
      k1 \in {EmptySlot, KQuestion, KBoth, KProbeFail},
      k2 \in {EmptySlot, KAnswer}, k3 \in {EmptySlot, KQuestion},
      x \in {<<>>, XTopic} }

StartPages ==
  { [p EXCEPT !.banner = b] : p \in LoopPages, b \in Banners }

\* the pages the whole-program specification draws from
MainPages ==
  { MkPage([i \in {1, 2, 3} |->
              IF i = 1 THEN k1 ELSE IF i = 2 THEN k2 ELSE EmptySlot], <<>>, {}, "") :
      k1 \in {EmptySlot, KQuestion}, k2 \in {EmptySlot, KAnswer} }

MainBanners == {"", "No results found for your search"}

MainStartPages ==
  { [p EXCEPT !.banner = b] : p \in MainPages, b \in MainBanners }

\* the pages of the termination specification: those, and one whose first
\* slot makes the probe raise
LivePages ==
  MainPages \cup {MkPage([i \in {1, 2, 3} |->
                            IF i = 1 THEN KProbeFail ELSE EmptySlot], <<>>, {}, "")}

LiveStartPages ==
  { [p EXCEPT !.banner = b] : p \in LivePages, b \in MainBanners }

(***************************************************************************)
(* State.                                                                  *)
(***************************************************************************)
VARIABLES
  pc,                  \* where the run is
  page,                \* the rendered page
  target,              \* target_posts / max_posts argument
  target_posts,        \* self.target_posts (None until search_keyword sets it)
  scroll_count, previous_count, no_new_posts_count, current_count,
  exit_reason,         \* which condition ended the scroll loop
  peak,                \* the largest count the loop has measured so far
  posts,               \* what search_keyword / extract_posts returned
  results,             \* what scrape_posts returned
  ext,                 \* what the last extraction call did (see Acc0)
  navs, scrolls, measures, extracts, clicks,  \* driver calls issued so far
  calls, lastCall,     \* direct calls of the extraction specification
  fault,               \* the last driver call of search_keyword that raised
  run,                 \* where main is and what it has done (see RunOff)
  detail,              \* the post page extract_post_content reads
  post_content         \* post_info["content"] (None until it is set)

vars ==
  <<pc, page, target, target_posts, scroll_count, previous_count,
    no_new_posts_count, current_count, exit_reason, peak, posts, results, ext,
    navs, scrolls, measures, extracts, clicks, calls, lastCall,
    fault, run, detail, post_content>>

loopVars ==
  <<scroll_count, previous_count, no_new_posts_count, current_count, exit_reason, peak>>
callVars == <<calls, lastCall>>
driverVars == <<navs, scrolls, measures, extracts, clicks>>
restVars == <<run, detail, post_content>>

\* main is not running: search_keyword or the extraction is called directly.
\* log is what main has done about the login so far, in order: "restore" /
\* "manual" when login_quora is called without / with manual_login, "prompt"
\* when the confirmation prompt is issued, "persist" when the login state is
\* written, "True" / "False" when login_quora returns, "search" when
\* scrape_posts is called.
RunOff ==
  [pc |-> "off", browser |-> FALSE, closes |-> 0, swallowed |-> 0,
   outcome |-> "none", log |-> <<>>]

\* no post page has been opened
NoDetail == [els |-> <<>>]

InitCommon ==
  /\ target \in 0..MaxTarget
  /\ target_posts = None
  /\ scroll_count = 0 /\ previous_count = 0 /\ no_new_posts_count = 0
  /\ current_count = 0 /\ exit_reason = "none" /\ peak = 0
  /\ posts = <<>> /\ results = <<>> /\ ext = Acc0
  /\ navs = 0 /\ scrolls = 0 /\ measures = 0 /\ extracts = 0 /\ clicks = 0
  /\ calls = 0 /\ lastCall = "none"
  /\ fault = "none" /\ run = RunOff
  /\ detail = NoDetail /\ post_content = None

\* scrape_posts(keyword, max_posts) is about to call search_keyword
Init ==
  /\ InitCommon
  /\ pc = "start"
  /\ page \in {MkPage([i \in {1, 2, 3} |-> EmptySlot], <<>>, {}, "")}

\* what the search page shows once loaded, and after a scroll
LoadedPages ==
  IF run.pc = "off" THEN StartPages
  ELSE IF run.pc = "search" THEN LiveStartPages ELSE MainStartPages

RevealedPages ==
  IF run.pc = "off" THEN LoopPages
  ELSE IF run.pc = "search" THEN LivePages ELSE MainPages

\* search_keyword returns [] from its except clause or from the no-results test
ReturnEmpty ==
  /\ posts' = <<>>
  /\ pc' = "returned"

\* self.page.goto(search_url, wait_until="networkidle")
Goto ==
  /\ pc = "start"
  /\ page' \in LoadedPages
  /\ navs' = navs + 1
  /\ pc' = "loaded"
  /\ UNCHANGED <<target, target_posts, loopVars, posts, results, ext,
                 scrolls, measures, extracts, clicks, callVars, fault, restVars>>

GotoFails ==
  /\ pc = "start"
  /\ navs' = navs + 1
  /\ fault' = "goto"
  /\ ReturnEmpty
  /\ UNCHANGED <<page, target, target_posts, loopVars, results, ext,
                 scrolls, measures, extracts, clicks, callVars, restVars>>

\* page_content = self.page.content() and the no-results test
ReadContent ==
  /\ pc = "loaded"
  /\ IF SignalsNoResults(PageContent(page))
     THEN ReturnEmpty
     ELSE pc' = "loop" /\ posts' = posts
  /\ UNCHANGED <<page, target, target_posts, loopVars, results, ext,
                 driverVars, callVars, fault, restVars>>

ContentFails ==
  /\ pc = "loaded"
  /\ fault' = "content"
  /\ ReturnEmpty
  /\ UNCHANGED <<page, target, target_posts, loopVars, results, ext,
                 driverVars, callVars, restVars>>

\* the target test with > in place of >=
TargetReachedStrict(count, t) == count > t

\* `if current_count >= target_posts: break`
TargetReached(count, t) == count >= t

\* the growth test with >= in place of >
GrewOrEqual(count, previous) == count >= previous

\* the growth test against the largest count measured so far
GrewBeyondPeak(count, previous) == count > peak

\* `if current_count > previous_count`
Grew(count, previous) == count > previous

\* the stagnation test with > in place of >=
StagnatedLate(streak) == streak > StagnationLimit

\* `if no_new_posts_count >= 5: break`
Stagnated(streak) == streak >= StagnationLimit

\* the loop test with <= in place of <
BudgetLeftInclusive(n) == n <= MaxScrolls

\* `while scroll_count < max_scrolls`
BudgetLeft(n) == n < MaxScrolls

\* scroll_count += 1; self.page.evaluate("window.scrollTo(...)"); the page
\* loads whatever it loads while the loop sleeps
Scroll ==
  /\ pc = "loop"
  /\ BudgetLeft(scroll_count)
  /\ scroll_count' = scroll_count + 1
  /\ scrolls' = scrolls + 1
  /\ page' \in RevealedPages
  /\ pc' = "measure"
  /\ UNCHANGED <<target, target_posts, previous_count, no_new_posts_count,
                 current_count, exit_reason, peak, posts, results, ext,
                 navs, measures, extracts, clicks, callVars, fault, restVars>>

\* a scroll that raises taken for a scroll that worked: the loop goes on
ScrollFailsIgnored ==
  /\ pc = "loop"
  /\ BudgetLeft(scroll_count)
  /\ scroll_count' = scroll_count + 1
  /\ scrolls' = scrolls + 1
  /\ fault' = "scroll"
  /\ pc' = "measure"
  /\ UNCHANGED <<page, target, target_posts, previous_count, no_new_posts_count,
                 current_count, exit_reason, peak, posts, results, ext,
                 navs, measures, extracts, clicks, callVars, restVars>>

ScrollFails ==
  /\ pc = "loop"
  /\ BudgetLeft(scroll_count)
  /\ scroll_count' = scroll_count + 1
  /\ scrolls' = scrolls + 1
  /\ fault' = "scroll"
  /\ ReturnEmpty
  /\ UNCHANGED <<page, target, target_posts, previous_count, no_new_posts_count,
                 current_count, exit_reason, peak, results, ext,
                 navs, measures, extracts, clicks, callVars, restVars>>

\* the while condition fails: max_scrolls iterations were used
LoopExhausted ==
  /\ pc = "loop"
  /\ ~BudgetLeft(scroll_count)
  /\ exit_reason' = "budget"
  /\ pc' = "extract"
  /\ UNCHANGED <<page, target, target_posts, scroll_count, previous_count,
                 no_new_posts_count, current_count, peak, posts, results, ext,
                 driverVars, callVars, fault, restVars>>

\* current_posts = self.extract_posts_for_count() and the two stop tests
\* no_new_posts_count after a measurement of c
NextStreak(c, previous, streak) == IF Grew(c, previous) THEN 0 ELSE streak + 1

\* the stop tests of one iteration, c = len(current_posts)
Decide(c) ==
  /\ current_count' = c
  /\ peak' = IF c > peak THEN c ELSE peak
  /\ IF TargetReached(c, target)
     THEN /\ exit_reason' = "target"
          /\ pc' = "extract"
          /\ UNCHANGED <<previous_count, no_new_posts_count>>
     ELSE /\ no_new_posts_count' = NextStreak(c, previous_count, no_new_posts_count)
          /\ IF Stagnated(NextStreak(c, previous_count, no_new_posts_count))
             THEN /\ exit_reason' = "stagnation"
                  /\ pc' = "extract"
                  /\ UNCHANGED previous_count
             ELSE /\ previous_count' = c
                  /\ pc' = "loop"
                  /\ UNCHANGED exit_reason

Measure ==
  /\ pc = "measure"
  /\ \E c \in {Len(ExtractPostsForCount(page).posts)} : Decide(c)
  /\ measures' = measures + 1
  /\ UNCHANGED <<page, target, target_posts, scroll_count, posts, results, ext,
                 navs, scrolls, extracts, clicks, callVars, fault, restVars>>

\* self.target_posts = target_posts; posts = self.extract_posts(); return posts
\* the effect of an extract_posts run r on the caller and on the page
Extracted(r) ==
  /\ posts' = r.posts
  /\ ext' = r
  /\ page' = ApplyClicks(page, r.clicks)
  /\ clicks' = clicks + Len(r.clicks)

ExtractCall ==
  /\ target_posts' = Some(target)
  /\ \E r \in {ExtractPosts(page, target)} : Extracted(r)
  /\ extracts' = extracts + 1
  /\ pc' = "returned"
  /\ UNCHANGED <<target, loopVars, results, navs, scrolls, measures, callVars, restVars>>

\* the extraction without the handler that turns its exception into []:
\* the exception leaves search_keyword
ExtractAborting ==
  /\ pc = "extract"
  /\ IF \E r \in {ExtractPosts(page, target)} : r.raised
     THEN /\ pc' = "aborted"
          /\ UNCHANGED <<page, target, target_posts, loopVars, posts, results,
                         ext, driverVars, callVars, restVars>>
     ELSE ExtractCall
  /\ UNCHANGED fault

\* the page title and length are read for the log, then the extraction runs
Extract ==
  /\ pc = "extract"
  /\ ExtractCall
  /\ UNCHANGED fault

\* posts[:max_posts]
Take(s, n) == SubSeq(s, 1, IF n < Len(s) THEN n ELSE Len(s))

\* scrape_posts: `if not posts: return []`, else posts[:max_posts]
ScrapeReturn ==
  /\ pc = "returned"
  /\ results' = IF posts = <<>> THEN <<>> ELSE Take(posts, target)
  /\ pc' = "done"
  /\ UNCHANGED <<page, target, target_posts, loopVars, posts, ext,
                 driverVars, callVars, fault, restVars>>

Next ==
  \/ Goto
  \/ GotoFails
  \/ ReadContent
  \/ ContentFails
  \/ Scroll
  \/ ScrollFails
  \/ LoopExhausted
  \/ Measure
  \/ Extract
  \/ ScrapeReturn

Spec == Init /\ [][Next]_vars

\* search_keyword called on its own, on the pages of LivePages
InitLive ==
  /\ target \in 0..MaxTarget
  /\ target_posts = None
  /\ scroll_count = 0 /\ previous_count = 0 /\ no_new_posts_count = 0
  /\ current_count = 0 /\ exit_reason = "none" /\ peak = 0
  /\ posts = <<>> /\ results = <<>> /\ ext = Acc0
  /\ navs = 0 /\ scrolls = 0 /\ measures = 0 /\ extracts = 0 /\ clicks = 0
  /\ calls = 0 /\ lastCall = "none"
  /\ fault = "none" /\ run = [RunOff EXCEPT !.pc = "search"]
  /\ detail = NoDetail /\ post_content = None
  /\ pc = "start"
  /\ page \in {MkPage([i \in {1, 2, 3} |-> EmptySlot], <<>>, {}, "")}

\* Every driver call returns or raises and the interpreter keeps running the
\* single thread: a step that is possible is eventually taken.
SpecLive == InitLive /\ [][Next]_vars /\ WF_vars(Next)

(***************************************************************************)
(* The extraction specification: extract_posts_for_count and extract_posts *)
(* called directly on a page drawn from RichPages.                         *)
(***************************************************************************)
InitX ==
  /\ InitCommon
  /\ pc = "call"
  /\ page \in RichPages

\* the effect of an extract_posts_for_count run r
Counted(r) ==
  /\ current_count' = Len(r.posts)
  /\ ext' = r
  /\ page' = ApplyClicks(page, r.clicks)
  /\ clicks' = clicks + Len(r.clicks)

\* self.extract_posts_for_count()
XCount ==
  /\ pc = "call"
  /\ calls < MaxCalls
  /\ Counted(ExtractPostsForCount(page))
  /\ measures' = measures + 1
  /\ calls' = calls + 1
  /\ lastCall' = "count"
  /\ UNCHANGED <<pc, target, target_posts, scroll_count, previous_count,
                 no_new_posts_count, exit_reason, peak, posts, results,
                 navs, scrolls, extracts, fault, restVars>>

\* self.target_posts = target; self.extract_posts()
XExtract ==
  /\ pc = "call"
  /\ calls < MaxCalls
  /\ target_posts' = Some(target)
  /\ Extracted(ExtractPosts(page, target))
  /\ extracts' = extracts + 1
  /\ calls' = calls + 1
  /\ lastCall' = "extract"
  /\ UNCHANGED <<pc, target, loopVars, results, navs, scrolls, measures,
                 fault, restVars>>

NextX ==
  \/ XCount
  \/ XExtract

SpecX == InitX /\ [][NextX]_vars

(***************************************************************************)
(* main: the prompts, start_browser, the two login attempts, scrape_posts, *)
(* the report and the finally clause, with KeyboardInterrupt and the       *)
(* failures search_keyword swallows (specification SpecMain).              *)
(***************************************************************************)
DefaultMaxPosts == 10

Digits == "0123456789"

\* the value of a one-character string that is a decimal digit, else -1
DigitValue(c) ==
  IF \E d \in 0..9 : SubSeq(Digits, d + 1, d + 1) = c
  THEN CHOOSE d \in 0..9 : SubSeq(Digits, d + 1, d + 1) = c
  ELSE -1

\* str.isdigit(): not empty and every character a digit
IsDigit(s) ==
  /\ Len(s) > 0
  /\ \A i \in 1..Len(s) : DigitValue(SubSeq(s, i, i)) >= 0

RECURSIVE IntOf(_)
\* int(s) for a string of digits
IntOf(s) ==
  IF Len(s) = 0 THEN 0
  ELSE 10 * IntOf(SubSeq(s, 1, Len(s) - 1)) + DigitValue(SubSeq(s, Len(s), Len(s)))

\* max_posts = input(...).strip(); int(max_posts) if max_posts.isdigit() else 10
ParseMaxPosts(typed) ==
  IF IsDigit(Strip(typed)) THEN IntOf(Strip(typed)) ELSE DefaultMaxPosts

\* what the user types at the second prompt
MaxPostsInputs == {"", "0", "1", " 2 ", "02", "-1", "ten"}

\* the scraper object exists and the try block is entered
Run0 == [RunOff EXCEPT !.pc = "start_browser"]

mainVars ==
  <<pc, page, target, target_posts, scroll_count, previous_count,
    no_new_posts_count, current_count, exit_reason, peak, posts, results, ext,
    navs, scrolls, measures, extracts, clicks, calls, lastCall,
    fault, detail, post_content>>

InitMain ==
  /\ target \in {ParseMaxPosts(typed) : typed \in MaxPostsInputs}
  /\ target_posts = None
  /\ scroll_count = 0 /\ previous_count = 0 /\ no_new_posts_count = 0
  /\ current_count = 0 /\ exit_reason = "none" /\ peak = 0
  /\ posts = <<>> /\ results = <<>> /\ ext = Acc0
  /\ navs = 0 /\ scrolls = 0 /\ measures = 0 /\ extracts = 0 /\ clicks = 0
  /\ calls = 0 /\ lastCall = "none"
  /\ fault = "none" /\ run = Run0
  /\ detail = NoDetail /\ post_content = None
  /\ pc = "idle"
  /\ page \in {MkPage([i \in {1, 2, 3} |-> EmptySlot], <<>>, {}, "")}

\* control leaves the try block of main: the finally clause is next
Leave(how) == run' = [run EXCEPT !.pc = "finally", !.outcome = how]

\* scraper.start_browser()
StartBrowser ==
  /\ run.pc = "start_browser"
  /\ run' = [run EXCEPT !.pc = "login_restore", !.browser = TRUE]
  /\ UNCHANGED mainVars

\* playwright cannot start, or neither Chrome nor Chromium launches
StartBrowserFails ==
  /\ run.pc = "start_browser"
  /\ Leave("exception")
  /\ UNCHANGED mainVars

\* the restore attempt taken for a success whatever it returned
LoginRestoreOptimistic ==
  /\ run.pc = "login_restore"
  /\ \E ok \in BOOLEAN :
       run' = [run EXCEPT !.pc = "scrape",
                          !.log = @ \o <<"restore", IF ok THEN "True" ELSE "False">>]
  /\ UNCHANGED mainVars

\* login_quora(manual_login=False): True if the home page shows no login
\* element, False if it shows one or if a driver call raised
LoginRestore ==
  /\ run.pc = "login_restore"
  /\ \E ok \in BOOLEAN :
       run' = [run EXCEPT !.pc = IF ok THEN "scrape" ELSE "login_manual",
                          !.log = @ \o <<"restore", IF ok THEN "True" ELSE "False">>]
  /\ UNCHANGED mainVars

\* KeyboardInterrupt inside new_context(storage_state=...): the bare except
\* takes it for a missing state file and the login attempt goes on
RestoreInterruptSwallowed ==
  /\ run.pc = "login_restore"
  /\ \E ok \in BOOLEAN :
       run' = [run EXCEPT !.pc = IF ok THEN "scrape" ELSE "login_manual",
                          !.swallowed = @ + 1,
                          !.log = @ \o <<"restore", IF ok THEN "True" ELSE "False">>]
  /\ UNCHANGED mainVars

\* login_quora(manual_login=True): the prompt, the state file, return True
LoginManual ==
  /\ run.pc = "login_manual"
  /\ run' = [run EXCEPT !.pc = "scrape",
                        !.log = @ \o <<"manual", "prompt", "persist", "True">>]
  /\ UNCHANGED mainVars

\* the manual login without the finally clause: the process ends at once
LoginManualFailsExit ==
  /\ run.pc = "login_manual"
  /\ run' = [run EXCEPT !.pc = "exit", !.outcome = "login_failed"]
  /\ UNCHANGED mainVars

\* what login_quora(manual_login=True) has done when a call of it raises:
\* nothing yet (the context, the page or the goto failed), or the prompt was
\* issued (input or storage_state failed)
ManualProgress == {<<>>, <<"prompt">>}

\* login_quora(manual_login=True) returns False from its except clause and
\* main returns
LoginManualFails ==
  /\ run.pc = "login_manual"
  /\ \E done \in ManualProgress :
       run' = [run EXCEPT !.pc = "finally", !.outcome = "login_failed",
                          !.log = @ \o <<"manual">> \o done \o <<"False">>]
  /\ UNCHANGED mainVars

\* KeyboardInterrupt anywhere else in login_quora: no handler of login_quora
\* catches it, main's `except KeyboardInterrupt` does
InterruptLogin ==
  /\ run.pc \in {"login_restore", "login_manual"}
  /\ \E done \in (IF run.pc = "login_restore" THEN {<<"restore">>}
                   ELSE {<<"manual">> \o d : d \in ManualProgress}) :
       run' = [run EXCEPT !.pc = "finally", !.outcome = "interrupted",
                          !.log = @ \o done]
  /\ UNCHANGED mainVars

\* results = scraper.scrape_posts(keyword, max_posts)
CallScrape ==
  /\ run.pc = "scrape"
  /\ pc = "idle"
  /\ pc' = "start"
  /\ run' = [run EXCEPT !.log = Append(@, "search")]
  /\ UNCHANGED <<page, target, target_posts, loopVars, posts, results, ext,
                 driverVars, callVars, fault, detail, post_content>>

\* the search runs inside main
Searching == run.pc = "scrape" /\ pc \in {"start", "loaded", "loop", "measure", "extract", "returned"}

\* self.page.wait_for_timeout(5000) raises: `except: pass`
WaitFails ==
  /\ Searching
  /\ pc = "loaded"
  /\ ~SignalsNoResults(PageContent(page))
  /\ fault' = "wait"
  /\ pc' = "loop"
  /\ UNCHANGED <<page, target, target_posts, loopVars, posts, results, ext,
                 driverVars, callVars, restVars>>

\* KeyboardInterrupt inside wait_for_timeout: the same bare except takes it
WaitInterruptSwallowed ==
  /\ Searching
  /\ pc = "loaded"
  /\ ~SignalsNoResults(PageContent(page))
  /\ run' = [run EXCEPT !.swallowed = @ + 1]
  /\ pc' = "loop"
  /\ UNCHANGED <<page, target, target_posts, loopVars, posts, results, ext,
                 driverVars, callVars, fault, detail, post_content>>

\* self.page.title() or self.page.content() raises after the loop: the
\* handler logs it and the extraction runs
InfoFails ==
  /\ Searching
  /\ pc = "extract"
  /\ fault' = "info"
  /\ ExtractCall

\* KeyboardInterrupt anywhere else in search_keyword, extract_posts,
\* extract_posts_for_count or scrape_posts: every handler there is
\* `except Exception`, so it reaches main
InterruptSearch ==
  /\ Searching
  /\ pc' = "aborted"
  /\ Leave("interrupted")
  /\ UNCHANGED <<page, target, target_posts, loopVars, posts, results, ext,
                 driverVars, callVars, fault, detail, post_content>>

\* KeyboardInterrupt in main itself: while the browser starts or while the
\* results are saved and printed
InterruptMain ==
  /\ \/ run.pc = "start_browser"
     \/ run.pc = "scrape" /\ pc \in {"idle", "done"}
  /\ Leave("interrupted")
  /\ UNCHANGED mainVars

\* `if results:` save and print, else the warning
Report ==
  /\ run.pc = "scrape"
  /\ pc = "done"
  /\ Leave(IF results # <<>> THEN "saved" ELSE "empty")
  /\ UNCHANGED mainVars

\* a print of the report raises
ReportFails ==
  /\ run.pc = "scrape"
  /\ pc = "done"
  /\ results # <<>>
  /\ Leave("exception")
  /\ UNCHANGED mainVars

\* finally: scraper.close()
Close ==
  /\ run.pc = "finally"
  /\ run' = [run EXCEPT !.pc = "exit", !.closes = @ + 1, !.browser = FALSE]
  /\ UNCHANGED mainVars

NextMain ==
  \/ StartBrowser
  \/ StartBrowserFails
  \/ LoginRestore
  \/ RestoreInterruptSwallowed
  \/ LoginManual
  \/ LoginManualFails
  \/ InterruptLogin
  \/ CallScrape
  \/ Goto
  \/ GotoFails
  \/ ReadContent
  \/ ContentFails
  \/ WaitFails
  \/ WaitInterruptSwallowed
  \/ Scroll
  \/ ScrollFails
  \/ LoopExhausted
  \/ Measure
  \/ Extract
  \/ InfoFails
  \/ ScrapeReturn
  \/ InterruptSearch
  \/ InterruptMain
  \/ Report
  \/ ReportFails
  \/ Close

SpecMain == InitMain /\ [][NextMain]_vars

(***************************************************************************)
(* extract_post_content (specification SpecC).                             *)
(***************************************************************************)
MinContentLen == 50

\* content_selectors, in their listed order
ContentSelectors ==
  << "div.q-relative.spacing_log_answer_content",
     "div.q-text",
     "div[data-testid='answer_content']",
     "div.Answer",
     "div.q-box",
     "div[class*='answer']",
     "div[class*='content']",
     "div[class*='text']",
     "div[class*='body']",
     "div[class*='description']",
     "div[class*='post']",
     "div[class*='story']" >>

\* the selector of the question description, queried when content is empty
GenericSelector == "div.q-text"

\* the literal the code stores when nothing was extracted (six CJK
\* characters in the source, "content extraction failed")
FailureMarker == "CONTENT-EXTRACTION-FAILED"

\* str(e) of the exception a failed goto raises
GotoError == "Timeout 30000ms exceeded."

\* self.page.query_selector(selector) on the post page d: the first element
\* the selector matches, None if there is none
QuerySelector(d, selector) ==
  d.els[CHOOSE k \in 1..Len(ContentSelectors) : ContentSelectors[k] = selector]

\* `if content and len(content) > 50`
LongEnough(content) == content # "" /\ Len(content) > MinContentLen

RECURSIVE ContentLoop(_, _, _)
\* `for selector in content_selectors`, from the k-th selector on: content
\* is assigned whenever the element is there and can be read, the loop is
\* left only when the text is long enough
ContentLoop(d, k, content) ==
  IF k > Len(ContentSelectors) THEN content
  ELSE
    LET e == QuerySelector(d, ContentSelectors[k])
    IN IF ~IsSome(e) \/ Get(e).stale THEN ContentLoop(d, k + 1, content)
       ELSE IF LongEnough(Strip(Get(e).text)) THEN Strip(Get(e).text)
       ELSE ContentLoop(d, k + 1, Strip(Get(e).text))

\* `if not content:` read the question description
GenericFallback(d, content) ==
  IF content # "" THEN content
  ELSE
    LET e == QuerySelector(d, GenericSelector)
    IN IF ~IsSome(e) \/ Get(e).stale THEN content ELSE Strip(Get(e).text)

\* post_info["content"] after extract_post_content on the post page d
ExtractPostContent(d) ==
  LET content == GenericFallback(d, ContentLoop(d, 1, ""))
  IN IF content # "" THEN content ELSE FailureMarker

\* the text of the containers that vary from one post page to the other
\* carries the container's position
Tag(k) == IF k = 1 THEN "P01" ELSE IF k = 2 THEN "P02" ELSE "P12"

ElementChoices(k) ==
  { None,
    Some([text |-> "  " \o Tag(k) \o ": a short text \n", stale |-> FALSE]),
    Some([text |-> " \t \n", stale |-> FALSE]),
    Some([text |-> " " \o Tag(k) \o ": exactly fifty characters once it is stripped." \o " ", stale |-> FALSE]),
    Some([text |-> "\n" \o Tag(k) \o ": ACoS is the ad spend divided by the ad revenue, as a percentage." \o "  ", stale |-> FALSE]),
    Some([text |-> Tag(k) \o ": ACoS is the ad spend divided by the ad revenue, as a percentage.", stale |-> TRUE]) }

DetailPages ==
  { [els |-> [k \in 1..Len(ContentSelectors) |->
                IF k = 1 THEN e1 ELSE IF k = 2 THEN e2
                ELSE IF k = 12 THEN e12 ELSE None]] :
      e1 \in ElementChoices(1), e2 \in ElementChoices(2), e12 \in ElementChoices(12) }

InitC ==
  /\ InitCommon
  /\ pc = "post"
  /\ page \in {MkPage([i \in {1, 2, 3} |-> EmptySlot], <<>>, {}, "")}

postVars ==
  <<page, target, target_posts, loopVars, posts, results, ext,
    driverVars, callVars, fault, run>>

\* self.page.goto(post_info["url"]) loads the post page
PostGoto ==
  /\ pc = "post"
  /\ detail' \in DetailPages
  /\ pc' = "post_loaded"
  /\ UNCHANGED <<post_content, postVars>>

\* the goto raises: the outer handler stores the marker and the message
PostGotoFails ==
  /\ pc = "post"
  /\ post_content' = Some(FailureMarker \o ": " \o GotoError)
  /\ pc' = "post_done"
  /\ UNCHANGED <<detail, postVars>>

\* the selector loop, the fallback and the assignment of post_info["content"]
PostContent ==
  /\ pc = "post_loaded"
  /\ post_content' = Some(ExtractPostContent(detail))
  /\ pc' = "post_done"
  /\ UNCHANGED <<detail, postVars>>

NextC ==
  \/ PostGoto
  \/ PostGotoFails
  \/ PostContent

SpecC == InitC /\ [][NextC]_vars

(***************************************************************************)
(* Properties of search_keyword and scrape_posts (specification Spec).     *)
(***************************************************************************)

\* C1: for every target count > 0 the list search_keyword returns, and the
\* list scrape_posts returns, is never longer than the target count,
\* whichever pass its records come from.
C1_LengthBounded ==
  target > 0 => (Len(posts) <= target /\ Len(results) <= target)

\* a full list made of primary-pass and fallback-pass records
C1_Witness ==
  /\ pc = "done" /\ target > 0
  /\ ext.ranFallback /\ ext.primaryCount > 0
  /\ Len(posts) = target /\ Len(results) = target

C2_Step ==
  /\ (measures' = measures + 1) =>
        /\ (current_count' >= target) <=> (exit_reason' = "target")
        /\ (current_count' >= target) => pc' = "extract"
        /\ (current_count' < target /\ no_new_posts_count' < StagnationLimit)
              => pc' = "loop"
  /\ (exit_reason = "target") =>
        (scrolls' = scrolls /\ measures' = measures /\ exit_reason' = "target")
  /\ (exit_reason' = "target") =>
        (scrolls' = measures' /\ scroll_count' = scrolls' /\ current_count' >= target)

\* C2: the scroll loop exits at the first iteration whose measurement is
\* >= the target count: that measurement ends the loop, no scroll or
\* measurement is issued after it, and a measurement below the target never
\* takes the target-reached exit.
C2_ExitAtFirstReach == [][C2_Step]_vars

\* four reveals, the first three measured below the target
C2_Witness ==
  /\ exit_reason = "target" /\ target = MaxTarget
  /\ scrolls = 4 /\ measures = 4
  /\ previous_count = MaxTarget - 1 /\ current_count >= MaxTarget

C3_Step ==
  (measures' = measures + 1 /\ current_count' < target) =>
     /\ no_new_posts_count' =
          IF current_count' > current_count THEN 0 ELSE no_new_posts_count + 1
     /\ (no_new_posts_count' = StagnationLimit) <=> (exit_reason' = "stagnation")
     /\ (no_new_posts_count' = StagnationLimit) <=> (pc' = "extract")
     /\ no_new_posts_count' <= StagnationLimit
     /\ pc' = "loop" => previous_count' = current_count'

\* C3: while the measurements stay below the target, the streak grows by one
\* at a measurement that is not larger than the previous one (0 before the
\* first) and is reset to 0 otherwise, and the loop exits exactly at the
\* measurement that brings the streak to 5.
C3_StagnationExit == [][C3_Step]_vars

\* one growing measurement, then five that do not grow: six iterations
C3_Witness ==
  /\ exit_reason = "stagnation" /\ no_new_posts_count = StagnationLimit
  /\ scroll_count = StagnationLimit + 1 /\ scroll_count < MaxScrolls
  /\ current_count > 0 /\ current_count = previous_count
  /\ current_count < target

C4_Step ==
  /\ (pc = "loaded") => (scrolls = 0 /\ measures = 0 /\ extracts = 0)
  /\ (pc = "loaded" /\ page.banner # "") =>
        (pc' = "returned" /\ posts' = <<>>)
  /\ (pc \in {"returned", "done"}) =>
        (scrolls' = scrolls /\ measures' = measures /\ extracts' = extracts
         /\ posts' = posts)

\* C4: when the page read after navigation says there are no results,
\* search_keyword returns the empty list without any scroll, measurement or
\* extraction.
C4_NoResultsShortCut == [][C4_Step]_vars

C4_Witness ==
  /\ pc = "done" /\ page.banner = "We found NO ANSWERS"
  /\ posts = <<>> /\ results = <<>>
  /\ scrolls = 0 /\ measures = 0 /\ extracts = 0

\* C5: at most 50 iterations, each one scroll followed by one measurement;
\* extract_posts runs exactly once after the loop has exited, never before,
\* and its result is what search_keyword returns.
C5_LoopShape ==
  /\ scrolls <= MaxScrolls /\ scroll_count = scrolls
  /\ (pc = "loop") => measures = scrolls
  /\ (pc = "measure") => scrolls = measures + 1
  /\ (pc \in {"extract", "returned", "done"}) => measures \in {scrolls - 1, scrolls}
  /\ (pc \in {"start", "loaded", "loop", "measure", "extract"}) => extracts = 0
  /\ (pc = "extract") <=> (exit_reason # "none" /\ extracts = 0)
  /\ (exit_reason # "none") => measures = scrolls
  /\ (pc \in {"returned", "done"} /\ exit_reason # "none") =>
        (extracts = 1 /\ posts = ext.posts)
  /\ (pc \in {"returned", "done"} /\ exit_reason = "none") => extracts = 0

\* the loop used its 50 iterations and the extraction ran once
C5_Witness ==
  /\ pc = "done" /\ exit_reason = "budget"
  /\ scrolls = MaxScrolls /\ measures = MaxScrolls /\ extracts = 1

(***************************************************************************)
(* Properties of extract_posts and extract_posts_for_count (specification  *)
(* SpecX).  ext.origin[n] tells where posts[n] was found.                  *)
(***************************************************************************)
\* the link element a record was read from
LinkOf(pg, o) ==
  IF o.pass = "fallback" /\ o.id[1] = "extra" THEN pg.extra[o.id[2]]
  ELSE IF o.pass = "fallback"
  THEN (IF o.id[3] = "A" THEN Get(pg.slots[o.id[2]].a) ELSE Get(pg.slots[o.id[2]].b))
  ELSE (IF o.via = "A" THEN Get(pg.slots[o.slot].a) ELSE Get(pg.slots[o.slot].b))

BothShapes(s) == IsSome(s.a) /\ IsSome(s.b)

\* C6: a slot where the patternA link and the patternB link are both present
\* yields patternA's record: title and url of the patternA link, the follow
\* fields, and none of patternB's view / like values.
C6_PatternAWins ==
  (lastCall = "extract") =>
    \A n \in 1..Len(posts) :
      (ext.origin[n].pass = "primary" /\ BothShapes(page.slots[ext.origin[n].slot])) =>
         /\ posts[n].title = Strip(Get(page.slots[ext.origin[n].slot].a).text)
         /\ posts[n].url = Origin \o Get(Get(page.slots[ext.origin[n].slot].a).href)
         /\ posts[n].follow_text # "" /\ posts[n].follow_count # ""
         /\ posts[n].views = "" /\ posts[n].likes = ""

IsAbsolute(h) == StartsWith(h, "http://") \/ StartsWith(h, "https://")

ExpectedUrl(href) ==
  IF IsSome(href) /\ StartsWith(Get(href), "/") THEN Origin \o Get(href)
  ELSE IF IsSome(href) /\ IsAbsolute(Get(href)) THEN Get(href)
  ELSE ""

\* C7: the url of every emitted record is the origin followed by href when
\* href starts with "/", href itself when href is absolute, and the empty
\* string in every other case.
C7_UrlResolved ==
  (lastCall = "extract") =>
    \A n \in 1..Len(posts) :
      posts[n].url = ExpectedUrl(LinkOf(page, ext.origin[n]).href)

\* the reads the fallback pass made of the matches of pattern k
ReadsOf(k) == {n \in 1..Len(ext.fbReads) : ext.fbReads[n][1] = k}

\* the matches of pattern k the pass may read: none if the query raised
MatchCount(k) ==
  IF k \in page.qfail THEN 0 ELSE Len(QuerySelectorAll(page, k))

LastOf(s) == s[Len(s)]

FallbackRecords == {n \in 1..Len(posts) : ext.origin[n].pass = "fallback"}

\* C8: the fallback pass runs iff the primary pass ended below the target; it
\* queries the generic patterns in listed order, reads the matches of one
\* pattern in document order and completely before the next pattern is
\* queried, and stops at the read that brings the list to the target: no
\* later link is read, no later pattern queried, the length never exceeds
\* the target.
C8_FallbackOrder ==
  (lastCall = "extract" /\ ~ext.raised) =>
    /\ ext.ranFallback <=> (ext.primaryCount < target)
    /\ ~ext.ranFallback => (ext.fbQueries = <<>> /\ ext.fbReads = <<>>
                            /\ FallbackRecords = {})
    /\ ext.ranFallback =>
         /\ Len(posts) <= target
         /\ \A n \in 1..Len(ext.fbQueries) : ext.fbQueries[n] = n
         /\ \A n \in 1..Len(ext.fbReads) :
              /\ ext.fbReads[n][1] \in 1..Len(ext.fbQueries)
              /\ ext.fbReads[n][2] \in 1..MatchCount(ext.fbReads[n][1])
              /\ n > 1 =>
                   \/ /\ ext.fbReads[n][1] = ext.fbReads[n - 1][1]
                      /\ ext.fbReads[n][2] = ext.fbReads[n - 1][2] + 1
                   \/ /\ ext.fbReads[n][1] > ext.fbReads[n - 1][1]
                      /\ ext.fbReads[n][2] = 1
         /\ \A k \in 1..(Len(ext.fbQueries) - 1) :
              Cardinality(ReadsOf(k)) = MatchCount(k)
         /\ \A n \in FallbackRecords :
              /\ n > ext.primaryCount
              /\ \E m \in 1..Len(ext.fbReads) :
                   ext.fbReads[m] = <<ext.origin[n].sel, ext.origin[n].idx>>
              /\ (n + 1 \in FallbackRecords) =>
                   \/ ext.origin[n].sel < ext.origin[n + 1].sel
                   \/ /\ ext.origin[n].sel = ext.origin[n + 1].sel
                      /\ ext.origin[n].idx < ext.origin[n + 1].idx
         /\ (Len(posts) = target) =>
              /\ ext.origin[Len(posts)].pass = "fallback"
              /\ LastOf(ext.fbReads) =
                   <<ext.origin[Len(posts)].sel, ext.origin[Len(posts)].idx>>
              /\ LastOf(ext.fbQueries) = ext.origin[Len(posts)].sel
         /\ (Len(posts) < target) =>
              /\ Len(ext.fbQueries) = Len(FallbackSelectors)
              /\ Cardinality(ReadsOf(Len(FallbackSelectors)))
                   = MatchCount(Len(FallbackSelectors))

\* the pass stopped inside the matches of a pattern, with later matches and
\* later patterns left alone
C8_Witness ==
  /\ lastCall = "extract" /\ ~ext.raised /\ ext.ranFallback
  /\ ext.primaryCount > 0 /\ Len(posts) = target
  /\ Len(ext.fbQueries) > 1 /\ Len(ext.fbQueries) < Len(FallbackSelectors)
  /\ Cardinality(ReadsOf(LastOf(ext.fbQueries))) < MatchCount(LastOf(ext.fbQueries))

\* the primary pass reached the target: no fallback
C8_NoFallbackSeen ==
  /\ lastCall = "extract" /\ ~ext.ranFallback /\ target > 0
  /\ ext.primaryCount = target

\* slots whose selected link has a significant stripped title, up to `last`
QualifyingSlots(pg, last) ==
  {i \in DOMAIN pg.slots :
     /\ i >= 1 /\ i <= last
     /\ IsSome(SelectLink(pg.slots[i]))
     /\ Significant(Strip(Get(SelectLink(pg.slots[i])).text))}

\* no driver call fails on this page
Sound(pg) ==
  \A i \in DOMAIN pg.slots :
    /\ ~pg.slots[i].probeFails
    /\ IsSome(pg.slots[i].a) => ~Get(pg.slots[i].a).stale
    /\ IsSome(pg.slots[i].b) => ~Get(pg.slots[i].b).stale

\* C9: extract_posts_for_count probes the slots 1 to 100 inclusive and
\* returns one title-only record per slot whose selected link has a stripped
\* title of more than 10 characters, and no other record.
C9_CountsSlots1To100 ==
  (lastCall = "count" /\ Sound(page)) =>
    /\ Len(ext.posts) = Cardinality(QualifyingSlots(page, 100))
    /\ \A n \in 1..Len(ext.posts) :
         /\ ext.origin[n].slot \in QualifyingSlots(page, 100)
         /\ ext.posts[n] =
              [title |-> Strip(Get(SelectLink(page.slots[ext.origin[n].slot])).text),
               url |-> "", content |-> ""]

\* what the code does: the slots 1 to 99
C9_CountsSlots1To99 ==
  (lastCall = "count" /\ Sound(page)) =>
    /\ Len(ext.posts) = Cardinality(QualifyingSlots(page, 99))
    /\ ext.probed = 99

C10_Step ==
  (measures' = measures + 1) =>
     /\ page' = page
     /\ clicks' = clicks /\ scrolls' = scrolls /\ navs' = navs
     /\ target_posts' = target_posts /\ posts' = posts /\ results' = results
     /\ (lastCall = "count") => current_count' = current_count

\* C10: a call of extract_posts_for_count issues no click, scroll or
\* navigation and leaves the page and the session as they were, and a call
\* that follows another one on the same page returns a list of equal length.
C10_CountReadOnly == [][C10_Step]_vars

\* two calls in a row on a page that holds an expand control
C10_Witness ==
  /\ lastCall = "count" /\ measures = 2 /\ calls = 2
  /\ current_count >= 2
  /\ \E i \in DOMAIN page.slots :
       page.slots[i].more /\ ~page.slots[i].clickFails /\ ~page.slots[i].expanded

\* slots of the primary range whose probes succeed and whose selected link
\* can be read and carries a significant title
ReadableSlots(pg) ==
  {i \in DOMAIN pg.slots :
     /\ i >= SlotStart /\ i < SlotStop
     /\ ~pg.slots[i].probeFails
     /\ IsSome(SelectLink(pg.slots[i]))
     /\ ~Get(SelectLink(pg.slots[i])).stale
     /\ Significant(Strip(Get(SelectLink(pg.slots[i])).text))}

\* the slots the returned primary-pass records were read from
ReturnedSlots ==
  {ext.origin[n].slot : n \in {k \in 1..Len(posts) : ext.origin[k].pass = "primary"}}

\* C11: a driver failure at one slot of the primary pass (a probe or a read
\* that raises) is contained to that slot: the pass goes on with the next
\* slot, so every readable slot that lies within the target is in the
\* returned list, whatever failed at the other slots.
C11_SlotFailureContained ==
  (lastCall = "extract") =>
    \A i \in ReadableSlots(page) :
      (Cardinality({j \in ReadableSlots(page) : j < i}) < target) =>
         i \in ReturnedSlots

\* what the code does contain: a read that raises inside the per-slot try
C11_ReadFailureContained ==
  (lastCall = "extract" /\ \A i \in DOMAIN page.slots : ~page.slots[i].probeFails) =>
    \A i \in ReadableSlots(page) :
      (Cardinality({j \in ReadableSlots(page) : j < i}) < target) =>
         i \in ReturnedSlots

\* a stale link at slot 1 was skipped and the record of slot 2 returned
C11_ReadFailureSeen ==
  /\ lastCall = "extract" /\ page.slots[1] = KStale
  /\ 2 \in ReturnedSlots

\* C12: every record of the primary pass has follow_text, follow_count,
\* views and likes set to a non-empty string ("0" when the page does not
\* expose the element).
C12_MetricsNeverEmpty ==
  (lastCall = "extract") =>
    \A n \in 1..Len(posts) :
      (ext.origin[n].pass = "primary") =>
         /\ posts[n].follow_text # "" /\ posts[n].follow_count # ""
         /\ posts[n].views # "" /\ posts[n].likes # ""

\* the page link a record was read from
LinkId(o) == IF o.pass = "fallback" THEN o.id ELSE <<"slot", o.slot, o.via>>

\* C16: no page link contributes more than one record to the returned list.
C16_NoLinkTwice ==
  (lastCall = "extract") =>
    \A n \in 1..Len(posts) : \A k \in 1..Len(posts) :
      (n # k) => LinkId(ext.origin[n]) # LinkId(ext.origin[k])

\* C19: the expand click is issued only at slots where the patternA link is
\* absent and the patternB link present.
C19_ClickOnlyAtPatternB ==
  (lastCall = "extract") =>
    \A n \in 1..Len(ext.clicks) :
      /\ ~IsSome(page.slots[ext.clicks[n]].a)
      /\ IsSome(page.slots[ext.clicks[n]].b)

\* C20: once the primary pass has emitted the record that brings the list to
\* the target, it probes, clicks and reads no later slot: the last slot
\* probed is the slot of that record and no click lies beyond it.
C20_StopsAtTarget ==
  (lastCall = "extract" /\ ~ext.raised /\ target > 0 /\ ext.primaryCount >= target) =>
    /\ ext.origin[target].pass = "primary"
    /\ ext.probed = ext.origin[target].slot
    /\ \A n \in 1..Len(ext.clicks) : ext.clicks[n] <= ext.origin[target].slot
    /\ \A n \in 1..Len(posts) :
         ext.origin[n].pass = "primary" /\ ext.origin[n].slot <= ext.probed

\* the target was reached at slot 1 or 2 while slot 99 holds a link
C20_Witness ==
  /\ lastCall = "extract" /\ ~ext.raised /\ target > 0
  /\ ext.primaryCount = target /\ ext.probed <= 2
  /\ page.slots[99] = KQuestion

(***************************************************************************)
(* Properties of main (specification SpecMain).                            *)
(***************************************************************************)

\* C13: once the scraper exists, every way the run ends passes through
\* scraper.close() exactly once: close has not been called while the try
\* block runs, every way out of the try block leads to the finally clause,
\* and the run has ended only after exactly one call of close.
C13_ClosedExactlyOnce ==
  /\ run.closes <= 1
  /\ (run.pc = "exit") <=> (run.closes = 1)
  /\ (run.outcome # "none") <=> (run.pc \in {"finally", "exit"})
  /\ (run.pc = "exit") =>
        run.outcome \in {"exception", "login_failed", "empty", "saved", "interrupted"}

\* the run was interrupted in the middle of the scroll loop and closed
C13_Witness ==
  /\ run.pc = "exit" /\ run.closes = 1 /\ run.outcome = "interrupted"
  /\ pc = "aborted" /\ scrolls > 2

\* the other ways out: login failure, empty result, exception
C13_LoginFailureSeen ==
  run.pc = "exit" /\ run.closes = 1 /\ run.outcome = "login_failed"

C13_EmptyResultSeen ==
  run.pc = "exit" /\ run.closes = 1 /\ run.outcome = "empty" /\ pc = "done"

C13_ExceptionSeen ==
  run.pc = "exit" /\ run.closes = 1 /\ run.outcome = "exception"

HardFaults == {"goto", "content", "scroll"}

\* C14 as stated: whichever page-driver call of search_keyword raised, the
\* search has returned the empty list and no reveal or extraction follows.
C14_AnyFailureReturnsEmpty ==
  (fault # "none") =>
     /\ pc \in {"returned", "done", "aborted"}
     /\ posts = <<>> /\ extracts = 0

C14_Step ==
  /\ (fault' \in HardFaults /\ fault' # fault) =>
        (pc' = "returned" /\ posts' = <<>> /\ extracts' = 0)
  /\ (fault \in HardFaults) =>
        /\ fault' = fault
        /\ pc' \in {"returned", "done", "aborted"}
        /\ posts' = <<>> /\ results' = <<>>
        /\ navs' = navs /\ scrolls' = scrolls /\ measures' = measures
        /\ extracts' = extracts /\ clicks' = clicks
        /\ run'.outcome \in {"none", "empty", "interrupted"}
        /\ (run'.pc = "exit") => run'.closes = 1

\* C14 (amended): if the navigation, the content read that follows it, or a
\* scroll raises, search_keyword returns the empty list, no further reveal,
\* measurement or extraction is issued, and main goes on to its report of an
\* empty result and to close().  (A failure of the wait before the loop or of
\* the title / content reads after it is swallowed and the search goes on.)
C14_HardFailureReturnsEmpty == [][C14_Step]_vars

\* a scroll raised after two good iterations; the run ended with close()
C14_Witness ==
  /\ fault = "scroll" /\ scrolls = 3 /\ measures = 2
  /\ pc = "done" /\ results = <<>>
  /\ run.pc = "exit" /\ run.outcome = "empty" /\ run.closes = 1

\* C17: a KeyboardInterrupt raised while login_quora, search_keyword or
\* extract_posts runs reaches main's handler: no inner handler swallows it.
C17_InterruptPropagates ==
  run.swallowed = 0

\* the interrupts that do propagate end the run with cleanup
C17_PropagatedSeen ==
  /\ run.outcome = "interrupted" /\ run.swallowed = 0
  /\ pc = "aborted" /\ run.pc = "exit" /\ run.closes = 1

(***************************************************************************)
(* Properties of extract_post_content (specification SpecC).               *)
(***************************************************************************)
\* the k-th container is there, can be read and holds more than 50 characters
Qualifies(d, k) ==
  /\ IsSome(d.els[k]) /\ ~Get(d.els[k]).stale
  /\ Len(Strip(Get(d.els[k]).text)) > MinContentLen

\* the text of the generic container, "" if it is missing or unreadable
GenericText(d) ==
  IF IsSome(QuerySelector(d, GenericSelector)) /\ ~Get(QuerySelector(d, GenericSelector)).stale
  THEN Strip(Get(QuerySelector(d, GenericSelector)).text)
  ELSE ""

\* C15: content is the text of the first container pattern, in listed order,
\* whose text is longer than 50 characters; if no pattern qualifies it is the
\* text of the generic container, never the short text of a pattern that did
\* not qualify; if nothing is found, or the page cannot be opened, it is a
\* failure marker; the operation always returns.
C15_ContentChosen ==
  /\ (pc = "post_done") => IsSome(post_content)
  /\ (pc = "post_done" /\ detail = NoDetail) =>
        StartsWith(Get(post_content), FailureMarker)
  /\ (pc = "post_done" /\ detail # NoDetail) =>
        IF \E k \in 1..Len(ContentSelectors) : Qualifies(detail, k)
        THEN Get(post_content) =
               Strip(Get(detail.els[SetMin({k \in 1..Len(ContentSelectors) :
                                               Qualifies(detail, k)})]).text)
        ELSE IF GenericText(detail) # ""
        THEN Get(post_content) = GenericText(detail)
        ELSE Get(post_content) = FailureMarker

\* what the code does when a pattern qualifies, and that it always returns
C15_FirstQualifyingWins ==
  /\ (pc = "post_done") => IsSome(post_content) /\ Get(post_content) # ""
  /\ (pc = "post_done" /\ detail # NoDetail
        /\ \E k \in 1..Len(ContentSelectors) : Qualifies(detail, k)) =>
        Get(post_content) =
          Strip(Get(detail.els[SetMin({k \in 1..Len(ContentSelectors) :
                                          Qualifies(detail, k)})]).text)

\* a text of exactly 50 characters was passed over for a later, longer one
C15_BoundarySeen ==
  /\ pc = "post_done" /\ detail # NoDetail
  /\ IsSome(detail.els[1]) /\ Len(Strip(Get(detail.els[1]).text)) = MinContentLen
  /\ Qualifies(detail, 12)
  /\ Get(post_content) = Strip(Get(detail.els[12]).text)

(***************************************************************************)
(* Termination of search_keyword (specification SpecLive).                 *)
(***************************************************************************)

\* C18: every search_keyword invocation terminates: it always reaches the
\* point where it has returned, and once the extraction is entered the
\* return follows, whatever the extraction met.
C18_Terminates ==
  /\ <>(pc = "returned")
  /\ (pc = "extract") ~> (pc = "returned")

\* the extraction raised and the search still returned, with an empty list
C18_Witness ==
  /\ pc = "returned" /\ extracts = 1
  /\ ext.raised /\ posts = <<>>
  /\ scrolls > 0

\* the extraction fell short of the target and returned a partial list
C18_PartialSeen ==
  /\ pc = "returned" /\ extracts = 1 /\ ~ext.raised
  /\ Len(posts) > 0 /\ Len(posts) < target
  /\ exit_reason = "budget"

(***************************************************************************)
(* Order of the list extract_posts returns (specification SpecX).          *)
(***************************************************************************)
PrimaryRecords == {n \in 1..Len(posts) : ext.origin[n].pass = "primary"}

\* C21: the list extract_posts returns is in discovery order: the primary-pass
\* records come in strictly increasing slot order, at most one per slot, and
\* every primary-pass record precedes every fallback-pass record.
C21_DiscoveryOrder ==
  (lastCall = "extract") =>
    /\ Len(ext.origin) = Len(posts)
    /\ \A n \in PrimaryRecords : \A k \in PrimaryRecords :
         (n < k) <=> (ext.origin[n].slot < ext.origin[k].slot)
    /\ \A n \in PrimaryRecords : \A k \in FallbackRecords : n < k
    /\ \A n \in PrimaryRecords :
         posts[n].title = Strip(LinkOf(page, ext.origin[n]).text)

\* records of the slots 1 and 99, with the empty slot 2 between them leaving
\* no trace, followed by a fallback record
C21_Witness ==
  /\ lastCall = "extract" /\ Len(posts) = 3
  /\ page.slots[2] = EmptySlot
  /\ ext.origin[1].pass = "primary" /\ ext.origin[1].slot = 1
  /\ ext.origin[2].pass = "primary" /\ ext.origin[2].slot = 99
  /\ ext.origin[3].pass = "fallback"

(***************************************************************************)
(* The login sequence of main (specification SpecMain).                    *)
(***************************************************************************)
\* how often main has done ev
LogCount(ev) == Cardinality({n \in 1..Len(run.log) : run.log[n] = ev})

\* C22: main runs the search only after a login_quora call has returned True:
\* the restore is tried first, the interactive login at most once and only
\* after the restore returned False, the confirmation prompt is issued at
\* most once, the login state is written only right after it, and nothing
\* follows an interactive login that failed.
C22_LoginBeforeSearch ==
  /\ (run.log # <<>>) => run.log[1] = "restore"
  /\ \A ev \in {"restore", "manual", "prompt", "persist", "search"} : LogCount(ev) <= 1
  /\ \A n \in 1..Len(run.log) :
       /\ (run.log[n] = "restore") => n = 1
       /\ (run.log[n] = "manual") => (n = 3 /\ run.log[2] = "False")
       /\ (run.log[n] = "prompt") => run.log[n - 1] = "manual"
       /\ (run.log[n] = "persist") => run.log[n - 1] = "prompt"
       /\ (run.log[n] = "search") => run.log[n - 1] = "True"
       /\ (run.log[n] = "False" /\ n > 2) => n = Len(run.log)
  /\ (pc # "idle" \/ navs > 0) => LogCount("search") = 1
  /\ (LogCount("manual") = 1 /\ run.log[Len(run.log)] = "False") =>
        (pc = "idle" /\ navs = 0 /\ run.pc \in {"finally", "exit"}
         /\ run.outcome = "login_failed")

\* the restore reported not logged in, the interactive login succeeded and
\* the search ran to its end
C22_Witness ==
  /\ run.log = <<"restore", "False", "manual", "prompt", "persist", "True", "search">>
  /\ pc = "done" /\ run.pc = "exit"

\* the interactive login failed after its prompt: no state written, no search
C22_ManualFailureSeen ==
  /\ run.log = <<"restore", "False", "manual", "prompt", "False">>
  /\ pc = "idle" /\ run.pc = "exit" /\ run.outcome = "login_failed"

\* C23: the target count main passes to scrape_posts is a positive integer:
\* whatever was typed at the count prompt, no search starts with a target
\* of 0.
C23_TargetPositive ==
  (LogCount("search") = 1) => target > 0

\* what the code does guarantee: the target is the number typed, or the
\* default, and never negative
C23_TargetNatural ==
  (LogCount("search") = 1) =>
     target \in {ParseMaxPosts(typed) : typed \in MaxPostsInputs} /\ target >= 0

\* a search that ran with a target of 0: one scroll, one record extracted,
\* nothing returned by scrape_posts
C23_ZeroTargetSeen ==
  /\ LogCount("search") = 1 /\ target = 0 /\ pc = "done"
  /\ scrolls = 1 /\ exit_reason = "target"
  /\ Len(posts) = 1 /\ results = <<>>

(***************************************************************************)
(* Stagnation and the loop counters of search_keyword (specification       *)
(* Spec).  peak is the largest count measured so far.                      *)
(***************************************************************************)
C24_Step ==
  (measures' = measures + 1 /\ current_count' < target) =>
     /\ (current_count' > current_count) => no_new_posts_count' = 0
     /\ (current_count' <= current_count) =>
           no_new_posts_count' = no_new_posts_count + 1
     /\ (current_count' > current_count /\ current_count' <= peak) =>
           (no_new_posts_count' = 0 /\ pc' = "loop" /\ peak' = peak)
     /\ (pc' = "loop") => previous_count' = current_count'
     /\ (exit_reason' = "stagnation") =>
           (no_new_posts_count = StagnationLimit - 1
            /\ current_count' <= current_count)

\* C24: stagnation is judged against the measurement just before, not
\* against the largest count seen so far: a count that is larger than the
\* previous one resets the streak to 0 even if it does not exceed an earlier
\* count, so a yield that oscillates below the target keeps the loop running
\* until its 50 iterations are used.
C24_JudgedAgainstPrevious == [][C24_Step]_vars

\* 50 iterations used though no count ever reached the target or exceeded
\* the largest of the first iterations: the last measurement recovered from
\* a drop and reset the streak
C24_Witness ==
  /\ pc = "extract" /\ exit_reason = "budget"
  /\ scrolls = MaxScrolls /\ measures = MaxScrolls
  /\ peak < target /\ current_count < peak
  /\ no_new_posts_count = 0

C25_Bounds ==
  /\ 0 <= no_new_posts_count /\ no_new_posts_count <= StagnationLimit
  /\ no_new_posts_count <= scroll_count /\ scroll_count <= MaxScrolls

C25_Step ==
  /\ C25_Bounds
  /\ C25_Bounds'
  /\ (scroll_count' # scroll_count) =>
        /\ scroll_count' = scroll_count + 1
        /\ pc = "loop"
        /\ no_new_posts_count < StagnationLimit
        /\ scroll_count < MaxScrolls
  /\ (no_new_posts_count = StagnationLimit) =>
        (pc \in {"extract", "returned", "done"} /\ exit_reason = "stagnation"
         /\ no_new_posts_count' = no_new_posts_count)

\* C25: at every point of the scroll loop 0 <= no_new_posts_count <= 5 and
\* no_new_posts_count <= scroll_count <= 50, and no iteration starts while
\* no_new_posts_count is 5.
C25_CountersBounded == [][C25_Step]_vars

\* the streak equal to the iteration count: five iterations, none of which
\* found anything
C25_Witness ==
  /\ pc = "extract" /\ exit_reason = "stagnation"
  /\ no_new_posts_count = StagnationLimit /\ scroll_count = StagnationLimit
  /\ current_count = 0

\* both counters at their largest: the streak reached 5 at the 50th iteration
C25_BothLimitsSeen ==
  /\ pc = "extract" /\ exit_reason = "stagnation"
  /\ no_new_posts_count = StagnationLimit /\ scroll_count = MaxScrolls

\* C26: when the loop exits because the last measurement was >= the target
\* and the page is the same at the extraction, extract_posts returns exactly
\* target records, all of the primary pass, and the fallback pass does not
\* run.
C26_MeasuredThenExtracted ==
  (exit_reason = "target" /\ extracts = 1) =>
     /\ ~ext.raised /\ ~ext.ranFallback
     /\ ext.fbQueries = <<>> /\ ext.fbReads = <<>>
     /\ Len(posts) = target
     /\ \A n \in 1..Len(posts) : ext.origin[n].pass = "primary"

\* what the code does: the same, for a target that is not 0
C26_PositiveTarget ==
  (exit_reason = "target" /\ extracts = 1 /\ target > 0) =>
     /\ ~ext.raised /\ ~ext.ranFallback
     /\ ext.fbQueries = <<>> /\ ext.fbReads = <<>>
     /\ Len(posts) = target
     /\ \A n \in 1..Len(posts) : ext.origin[n].pass = "primary"

\* a measurement of 3 against a target of 2: two primary records returned
C26_PositiveSeen ==
  /\ exit_reason = "target" /\ extracts = 1 /\ target = 2
  /\ current_count = 3 /\ Len(posts) = 2 /\ ~ext.ranFallback

\* target 0: the measurement of 2 ends the loop and one record is returned
C26_ZeroTargetSeen ==
  /\ exit_reason = "target" /\ extracts = 1 /\ target = 0
  /\ current_count = 2 /\ Len(posts) = 1 /\ ~ext.ranFallback

(***************************************************************************)
(* Failures inside the fallback pass (specification SpecX).                *)
(***************************************************************************)
\* the link the fallback pass read as the j-th match of pattern k
FallbackElement(k, j) == QuerySelectorAll(page, k)[j].el

\* a read that neither raises nor finds a short title
GoodRead(k, j) ==
  ~FallbackElement(k, j).stale /\ Significant(Strip(FallbackElement(k, j).text))

Recorded(k, j) ==
  \E n \in FallbackRecords : ext.origin[n].sel = k /\ ext.origin[n].idx = j

NoProbeFails == \A i \in DOMAIN page.slots : ~page.slots[i].probeFails

\* C27: in the fallback pass a query that raises is contained to its pattern
\* and a read that raises to its link: the next link of the pattern, or the
\* next pattern, is tried, and the records collected so far are kept.
C27_FallbackFailureContained ==
  (lastCall = "extract" /\ NoProbeFails) =>
    /\ ~ext.raised
    /\ Len(posts) >= ext.primaryCount
    /\ Len(ext.origin) = Len(posts)
    /\ \A n \in 1..ext.primaryCount : ext.origin[n].pass = "primary"
    /\ \A m \in 1..Len(ext.fbQueries) :
         (ext.fbQueries[m] \in page.qfail) =>
            /\ ReadsOf(ext.fbQueries[m]) = {}
            /\ (ext.fbQueries[m] < Len(FallbackSelectors)) =>
                  (m < Len(ext.fbQueries) /\ ext.fbQueries[m + 1] = ext.fbQueries[m] + 1)
    /\ \A m \in 1..Len(ext.fbReads) :
         /\ Recorded(ext.fbReads[m][1], ext.fbReads[m][2])
              <=> GoodRead(ext.fbReads[m][1], ext.fbReads[m][2])
         /\ FallbackElement(ext.fbReads[m][1], ext.fbReads[m][2]).stale =>
              IF ext.fbReads[m][2] < MatchCount(ext.fbReads[m][1])
              THEN /\ m < Len(ext.fbReads)
                   /\ ext.fbReads[m + 1] = <<ext.fbReads[m][1], ext.fbReads[m][2] + 1>>
              ELSE (ext.fbReads[m][1] < Len(FallbackSelectors)) =>
                     \E q \in 1..Len(ext.fbQueries) :
                       ext.fbQueries[q] = ext.fbReads[m][1] + 1
    /\ Cardinality(FallbackRecords) =
         Cardinality({m \in 1..Len(ext.fbReads) :
                        GoodRead(ext.fbReads[m][1], ext.fbReads[m][2])})

\* a read raised in the middle of a pattern's matches: the primary record
\* was kept and the next match of the same pattern gave a record
C27_Witness ==
  /\ lastCall = "extract" /\ NoProbeFails /\ ext.ranFallback
  /\ ext.primaryCount > 0 /\ Len(posts) > ext.primaryCount
  /\ \E m \in 1..(Len(ext.fbReads) - 1) :
       /\ FallbackElement(ext.fbReads[m][1], ext.fbReads[m][2]).stale
       /\ ext.fbReads[m + 1][1] = ext.fbReads[m][1]
       /\ Recorded(ext.fbReads[m + 1][1], ext.fbReads[m + 1][2])

\* the query of the second pattern raised: the primary record was kept and a
\* later pattern gave a record
C27_QueryFailureSeen ==
  /\ lastCall = "extract" /\ NoProbeFails /\ ext.ranFallback
  /\ page.qfail = {2} /\ Len(ext.fbQueries) > 2
  /\ ext.primaryCount > 0 /\ Len(posts) > ext.primaryCount
  /\ ext.origin[Len(posts)].pass = "fallback" /\ ext.origin[Len(posts)].sel > 2

====
